---- MODULE Spec2Model ----
(***************************************************************************)
(* A model of src/services/neo4j_loader.py: the Neo4jLoader that reads the *)
(* product, event and R&D JSON exports and an image and upserts them into  *)
(* a Neo4j property graph.                                                 *)
(*                                                                         *)
(* Python strings whose characters the code inspects (revenue strings and  *)
(* "<id> x<n>" shorthand strings) are sequences of one-character strings.  *)
(* Identifiers that the code only compares and concatenates are TLA+       *)
(* strings.  A Python dict is a function; a key the dict lacks is a key    *)
(* outside its DOMAIN.                                                     *)
(***************************************************************************)
EXTENDS Integers, Sequences, FiniteSets, TLC

\* ------------------------------------------------------------- bounds
\* Longest revenue string handed to parse_revenue in ParseSpec.
MaxLen == 3
\* Most records in the "products" array of a products file.
MaxRecs == 2
\* Most executions of the process entry point against the same database.
MaxRuns == 2

\* ------------------------------------------------------------ strings
Range(s) == {s[i] : i \in DOMAIN s}

SeqsUpTo(S, n) == UNION {[1..k -> S] : k \in 0..n}

RECURSIVE Join(_)
\* The Python str a sequence of characters stands for.
Join(cs) == IF cs = <<>> THEN "" ELSE Head(cs) \o Join(Tail(cs))

\* str.replace(ch, ''): every occurrence of the one-character string removed.
Remove(s, ch) == SelectSeq(s, LAMBDA c : c # ch)

\* The whitespace characters of the modelled alphabet.
Whitespace == {" ", "\t"}

RECURSIVE LStrip(_)
LStrip(s) == IF s # <<>> /\ Head(s) \in Whitespace THEN LStrip(Tail(s)) ELSE s

RECURSIVE RStrip(_)
RStrip(s) ==
    IF s # <<>> /\ s[Len(s)] \in Whitespace THEN RStrip(SubSeq(s, 1, Len(s) - 1)) ELSE s

\* str.strip()
Strip(s) == LStrip(RStrip(s))

Digits == {"0", "1", "2", "3"}

DigitVal(c) == CASE c = "0" -> 0 [] c = "1" -> 1 [] c = "2" -> 2 [] c = "3" -> 3

RECURSIVE DecVal(_)
\* The value of a sequence of decimal digits.
DecVal(ds) ==
    IF ds = <<>> THEN 0 ELSE 10 * DecVal(SubSeq(ds, 1, Len(ds) - 1)) + DigitVal(ds[Len(ds)])

RECURSIVE Pow10(_)
Pow10(n) == IF n = 0 THEN 1 ELSE 10 * Pow10(n - 1)

\* A float is kept as an integer count of 10^-Scale units, which is exact for
\* every decimal string of at most MaxLen characters.
Scale == MaxLen
Unit == Pow10(Scale)

IndexOf(s, c) == IF c \in Range(s) THEN CHOOSE i \in DOMAIN s : s[i] = c /\ \A j \in 1..(i - 1) : s[j] # c ELSE 0

\* float(str): surrounding whitespace is ignored, then an optional sign, then
\* digits with at most one decimal point and at least one digit.  Characters
\* that open the other forms float() accepts (exponents, "inf", "nan", "_")
\* are outside the modelled alphabet.  [ok |-> FALSE] is ValueError.  The
\* strings parsed have at most Scale digits after the point, so that the
\* value is a whole number of units.
FloatOfStr(str) ==
    LET s == Strip(str)
        signed == s # <<>> /\ Head(s) \in {"-", "+"}
        body == IF signed THEN Tail(s) ELSE s
        dot == IndexOf(body, ".")
        ip == IF dot = 0 THEN body ELSE SubSeq(body, 1, dot - 1)
        fp == IF dot = 0 THEN <<>> ELSE SubSeq(body, dot + 1, Len(body))
        wellFormed == /\ Range(ip) \subseteq Digits
                      /\ Range(fp) \subseteq Digits
                      /\ Len(ip) + Len(fp) > 0
                      /\ Len(fp) <= Scale
        mag == DecVal(ip) * Unit + DecVal(fp) * Pow10(Scale - Len(fp))
    IN  IF wellFormed
        THEN [ok |-> TRUE, v |-> IF signed /\ Head(s) = "-" THEN 0 - mag ELSE mag]
        ELSE [ok |-> FALSE]

\* int(str): surrounding whitespace ignored, optional sign, one or more digits.
IntOfStr(str) ==
    LET s == Strip(str)
        signed == s # <<>> /\ Head(s) \in {"-", "+"}
        body == IF signed THEN Tail(s) ELSE s
    IN  IF body # <<>> /\ Range(body) \subseteq Digits
        THEN [ok |-> TRUE, v |-> IF signed /\ Head(s) = "-" THEN 0 - DecVal(body) ELSE DecVal(body)]
        ELSE [ok |-> FALSE]

\* Whether sep occurs in s at position i.
OccursAt(s, sep, i) == i + Len(sep) - 1 <= Len(s) /\ SubSeq(s, i, i + Len(sep) - 1) = sep

RECURSIVE Split(_, _)
\* str.split(sep): the pieces between the non-overlapping occurrences of sep,
\* found left to right.
Split(s, sep) ==
    LET hits == {i \in DOMAIN s : OccursAt(s, sep, i)}
    IN  IF hits = {} THEN <<s>>
        ELSE LET i == CHOOSE h \in hits : \A k \in hits : h <= k
             IN  <<SubSeq(s, 1, i - 1)>> \o Split(SubSeq(s, i + Len(sep), Len(s)), sep)

\* -------------------------------------------------------- parse_revenue
\* The Python values parse_revenue is given: PyStr(cs), a str; PyInt(m, e), the
\* int m * 2^e (json.load yields ints of any size); PyFloat(v), a float of v units.
PyStr(cs) == [t |-> "str", s |-> cs]
PyInt(m, e) == [t |-> "int", m |-> m, e |-> e]
PyFloat(v) == [t |-> "float", v |-> v]

\* float(number).  An int of magnitude 2^1024 or more has no double:
\* float() raises OverflowError.
FloatOfNumber(x) ==
    IF x.t = "float" THEN [exc |-> "none", v |-> x.v]
    ELSE IF x.m = 0 THEN [exc |-> "none", v |-> 0]
    ELSE IF x.e >= 1024 THEN [exc |-> "OverflowError"]
    ELSE [exc |-> "none", v |-> x.m * (2 ^ x.e) * Unit]

\* Neo4jLoader.parse_revenue: [exc |-> "none", v |-> the float returned] or
\* the exception that leaves the method.
parse_revenue(revenue_str) ==
    IF revenue_str.t \in {"int", "float"} THEN FloatOfNumber(revenue_str)
    ELSE LET cleaned == Strip(Remove(Remove(Remove(revenue_str.s, "€"), ","), " "))
             f == FloatOfStr(cleaned)
         IN  IF f.ok THEN [exc |-> "none", v |-> f.v] ELSE [exc |-> "none", v |-> 0]

\* ------------------------------------------------------------ the graph
\* The database holds nodes and relationships.  nodes maps <<label, key>>,
\* the label and the value of the property the loader merges on, to the
\* property maps of the nodes that carry them, one entry per node, so a
\* duplicate is a second entry.  rels maps <<type, source, target>> to the
\* property maps of the relationships of that type between the two.
NoProps == [none |-> TRUE]

EmptyGraph == [nodes |-> <<>>, rels |-> <<>>, indexes |-> {}]

Labels == {"Product", "BatteryType", "TradeShow", "Event", "Sale", "RDProject", "Image"}

RelTypes ==
    {"USES_BATTERY", "DISPLAYED_AT", "SOLD_AT", "INCLUDES_PRODUCT", "DEPLOYED_AT",
     "TARGETS_PRODUCT"}

Restrict(f, S) == [x \in S |-> f[x]]

\* The pattern (n) of "MATCH (n)".
AnyNode == [any |-> TRUE]

\* The pattern (x:Label {key: value}).
Pat(label, key) == [label |-> label, key |-> key]

\* A mutation of Match: the pattern finds no node.
MatchNothing(nodes, pat) == {}

\* The nodes a Cypher node pattern binds, as their <<label, key>>.
Match(nodes, pat) ==
    IF pat = AnyNode THEN DOMAIN nodes
    ELSE {k \in DOMAIN nodes : k = <<pat.label, pat.key>>}

\* What creating a node does: one more node under <<label, key>>.
CreateNode(g, label, key, props) ==
    LET k == <<label, key>>
        old == IF k \in DOMAIN g.nodes THEN g.nodes[k] ELSE <<>>
    IN  [g EXCEPT !.nodes = (k :> Append(old, props)) @@ g.nodes]

\* A mutation of MergeNode: CREATE where the code has MERGE.
MergeNodeAsCreate(g, label, key, props) == CreateNode(g, label, key, props)

\* "MERGE (x:Label {key: $key}) SET x.p = ...": the matching nodes get the
\* properties; a node is created only when none matches.
MergeNode(g, label, key, props) ==
    LET m == Match(g.nodes, Pat(label, key))
    IN  IF m = {} THEN CreateNode(g, label, key, props)
        ELSE [g EXCEPT !.nodes =
                 [k \in DOMAIN g.nodes |->
                     IF k \in m THEN [i \in DOMAIN g.nodes[k] |-> props] ELSE g.nodes[k]]]

\* A mutation of MergeRel: the relationship is merged without matching its ends.
MergeRelUnmatched(g, type, src, dst, props) ==
    LET r == <<type, <<src.label, src.key>>, <<dst.label, dst.key>>>>
    IN  [g EXCEPT !.rels = (r :> <<props>>) @@ g.rels]

\* "MATCH (a ...) MATCH (b ...) MERGE (a)-[r:TYPE]->(b) SET r.p = ...": no
\* row, and so no relationship and no error, unless both patterns match.
MergeRel(g, type, src, dst, props) ==
    LET new == {<<type, s, d>> : s \in Match(g.nodes, src), d \in Match(g.nodes, dst)}
    IN  [g EXCEPT !.rels =
            [r \in DOMAIN g.rels \cup new |->
                IF r \notin new THEN g.rels[r]
                ELSE IF r \in DOMAIN g.rels THEN [i \in DOMAIN g.rels[r] |-> props]
                ELSE <<props>>]]

\* "MATCH (n) DETACH DELETE n"
DetachDeleteAll(g) ==
    LET gone == Match(g.nodes, AnyNode)
    IN  [g EXCEPT !.nodes = Restrict(g.nodes, DOMAIN g.nodes \ gone),
                  !.rels = Restrict(g.rels, {r \in DOMAIN g.rels : r[2] \notin gone /\ r[3] \notin gone})]

RECURSIVE SumOver(_, _)
SumOver(f, S) == IF S = {} THEN 0 ELSE LET x == CHOOSE y \in S : TRUE IN Len(f[x]) + SumOver(f, S \ {x})

\* The two aggregate queries of verify_data: nodes per label, relationships per type.
Counts(g) ==
    [nodes |-> [l \in Labels |-> SumOver(g.nodes, {k \in DOMAIN g.nodes : k[1] = l})],
     rels |-> [t \in RelTypes |-> SumOver(g.rels, {r \in DOMAIN g.rels : r[1] = t})]]

\* ------------------------------------------------------------ the files
\* dict.get(key, default)
Get(d, key, default) == IF key \in DOMAIN d THEN d[key] ELSE default

\* A file is Absent, Malformed (json.load raises on it) or the dict json.load
\* returns for it.
Absent == [absent |-> TRUE]
Malformed == [malformed |-> TRUE]
None == "None"

ProductsDefault == "data/greenpower_products.json"
EventsDefault == "data/greenpower_events.json"
RdDefault == "data/greenpower_rd_innovations.json"
ImageDefault == "data/exemple.jpg"

ProductPaths == {ProductsDefault, "data/old_products.json", "data/new_products.json"}
EventPaths == {EventsDefault, "data/old_events.json"}
RdPaths == {RdDefault}
Paths == ProductPaths \cup EventPaths \cup RdPaths \cup {ImageDefault}

ProductsPattern == "*product*.json"
EventsPattern == "*event*.json"
RdPattern == "*rd*.json"
Patterns == {ProductsPattern, EventsPattern, RdPattern}

\* fnmatch of the modelled paths against the three patterns of the loader.
Matches(path, pattern) ==
    \/ pattern = ProductsPattern /\ path \in ProductPaths
    \/ pattern = EventsPattern /\ path \in EventPaths
    \/ pattern = RdPattern /\ path \in RdPaths

\* os.path.basename of the modelled image path.
Basename(path) == IF path = ImageDefault THEN "exemple.jpg" ELSE path

\* glob.glob("data/" + pattern): the matching files that exist, in the order
\* the file system enumerates the directory.
Glob(files, order, pattern) ==
    SelectSeq(order, LAMBDA p : files[p] # Absent /\ Matches(p, pattern))

\* Neo4jLoader._find_file
_find_file(files, order, default_path, pattern) ==
    IF files[default_path] # Absent THEN default_path
    ELSE LET candidates == Glob(files, order, pattern)
         IN  IF candidates # <<>> THEN candidates[1] ELSE None

\* ---------------------------------------------------------- the mappers
\* A step of a loader: the graph it leaves and the exception it raises.
Ok(g) == [g |-> g, exc |-> "none"]
Raise(g, e) == [g |-> g, exc |-> e]

RECURSIVE ForEach(_, _, _)
\* "for x in xs: Body": the loop stops at the first iteration that raises,
\* keeping what the earlier statements wrote.
ForEach(Body(_, _), g, xs) ==
    IF xs = <<>> THEN Ok(g)
    ELSE LET r == Body(g, Head(xs))
         IN  IF r.exc # "none" THEN r ELSE ForEach(Body, r.g, Tail(xs))

\* The body of the loop of load_products.  Every product[...] subscript is
\* evaluated before the first statement runs; the modelled keys stand for all
\* the keys the code subscripts.
LoadProduct(g, product) ==
    IF \/ ~({"product_id", "specifications", "pricing"} \subseteq DOMAIN product)
       \/ "battery_type" \notin DOMAIN product.specifications
       \/ "margin_percentage" \notin DOMAIN product.pricing
    THEN Raise(g, "KeyError")
    ELSE LET id == product.product_id
             bt == product.specifications.battery_type
             g1 == MergeNode(g, "Product", id,
                             [battery_type |-> bt,
                              margin_percentage |-> product.pricing.margin_percentage])
             g2 == MergeNode(g1, "BatteryType", bt, NoProps)
         IN  Ok(MergeRel(g2, "USES_BATTERY", Pat("Product", id), Pat("BatteryType", bt), NoProps))

CustomerTypes == <<"particuliers", "entreprises", "collectivites">>

\* A mutation of SaleId: the customer type is left out of the key.
SaleIdOfEvent(event_id, customer_type) == event_id

\* sale_id = f"{event['event_id']}_{customer_type}"
SaleId(event_id, customer_type) == event_id \o "_" \o customer_type

\* 'parts = s.split(" x"); if len(parts) == 2: ...', as the sales loop and
\* the models_used loop have it: the product and its quantity, int() raising
\* ValueError on a quantity that is no integer.  other is the pattern of the other end and
\* fromProduct says that the relationship leaves the product.
LinkShorthand(g, type, other, product_str, fromProduct) ==
    LET parts == Split(product_str, <<" ", "x">>)
    IN  IF Len(parts) # 2 THEN Ok(g)
        ELSE LET q == IntOfStr(parts[2])
                 p == Pat("Product", Join(parts[1]))
             IN  IF ~q.ok THEN Raise(g, "ValueError")
                 ELSE Ok(IF fromProduct THEN MergeRel(g, type, p, other, [quantity |-> q.v])
                         ELSE MergeRel(g, type, other, p, [quantity |-> q.v]))

\* The body of "for customer_type in [...]" of load_events.
LoadSale(g, event, customer_type) ==
    LET sales == Get(event.sales_data.sales_closed, customer_type, <<>>)
        id == event.event_id
        sale_id == SaleId(id, customer_type)
    IN  IF ~(Get(sales, "units", 0) > 0) THEN Ok(g)
        ELSE IF "total_revenue" \notin DOMAIN sales THEN Raise(g, "KeyError")
        ELSE LET rev == parse_revenue(sales.total_revenue)
             IN  IF rev.exc # "none" THEN Raise(g, rev.exc)
                 ELSE LET g1 == MergeNode(g, "Sale", sale_id,
                                          [customer_type |-> customer_type,
                                           units |-> sales.units,
                                           total_revenue |-> rev.v])
                          g2 == MergeRel(g1, "SOLD_AT", Pat("Sale", sale_id),
                                         Pat("TradeShow", id), NoProps)
                      IN  ForEach(LAMBDA gg, product_str :
                                      LinkShorthand(gg, "INCLUDES_PRODUCT", Pat("Sale", sale_id),
                                                    product_str, FALSE),
                                  g2, Get(sales, "products", <<>>))

\* The body of "for event in data.get('trade_shows_exhibitions', [])".
LoadTradeShow(g, event) ==
    IF \/ ~({"event_id", "sales_data"} \subseteq DOMAIN event)
       \/ "total_sales" \notin DOMAIN event.sales_data
    THEN Raise(g, "KeyError")
    ELSE LET id == event.event_id
             total == parse_revenue(event.sales_data.total_sales)
         IN  IF total.exc # "none" THEN Raise(g, total.exc)
             ELSE LET g1 == MergeNode(g, "TradeShow", id, [total_sales |-> total.v])
                  IN  IF "greenpower_participation" \notin DOMAIN event THEN Raise(g1, "KeyError")
                      ELSE LET shown == ForEach(LAMBDA gg, product_id :
                                                    Ok(MergeRel(gg, "DISPLAYED_AT",
                                                                Pat("Product", product_id),
                                                                Pat("TradeShow", id), NoProps)),
                                                g1,
                                                Get(event.greenpower_participation,
                                                    "models_displayed", <<>>))
                           IN  IF "sales_closed" \notin DOMAIN event.sales_data
                               THEN Raise(shown.g, "KeyError")
                               ELSE ForEach(LAMBDA gg, ct : LoadSale(gg, event, ct),
                                            shown.g, CustomerTypes)

\* The body of "for model_str in event['power_deployment']['models_used']":
\* unlike the sales loop, an entry that does not split in two is taken as a
\* bare product id with quantity 1.
DeployModel(g, event_id, model_str) ==
    LET parts == Split(model_str, <<" ", "x">>)
    IN  IF Len(parts) = 2
        THEN LinkShorthand(g, "DEPLOYED_AT", Pat("Event", event_id), model_str, TRUE)
        ELSE Ok(MergeRel(g, "DEPLOYED_AT", Pat("Product", Join(model_str)),
                         Pat("Event", event_id), [quantity |-> 1]))

\* The body of "for event in data.get('powered_events', [])".
LoadPoweredEvent(g, event) ==
    IF ~({"event_id", "power_deployment"} \subseteq DOMAIN event) THEN Raise(g, "KeyError")
    ELSE LET id == event.event_id
             g1 == MergeNode(g, "Event", id,
                             [attendees |-> Get(event.power_deployment, "attendees", "N/A")])
         IN  IF "models_used" \notin DOMAIN event.power_deployment THEN Raise(g1, "KeyError")
             ELSE ForEach(LAMBDA gg, model_str : DeployModel(gg, id, model_str),
                          g1, event.power_deployment.models_used)

\* The body of "for project in data.get('active_rd_projects', [])".
LoadProject(g, project) ==
    IF "project_id" \notin DOMAIN project THEN Raise(g, "KeyError")
    ELSE LET id == project.project_id
             g1 == MergeNode(g, "RDProject", id,
                             [projected_savings |->
                                 Get(project, "projected_annual_savings", "N/A")])
         IN  ForEach(LAMBDA gg, product_id :
                         Ok(MergeRel(gg, "TARGETS_PRODUCT", Pat("RDProject", id),
                                     Pat("Product", product_id), NoProps)),
                     g1, Get(project, "target_products", <<>>))

\* ---------------------------------------------------------- the loaders
\* What a load_* method leaves: the graph, and either the value it returns
\* or the exception that leaves it.
Returns(g, ret) == [g |-> g, ret |-> ret, exc |-> "none"]
Raises(g, e) == [g |-> g, ret |-> FALSE, exc |-> e]
Finish(r) == IF r.exc = "none" THEN Returns(r.g, TRUE) ELSE Raises(r.g, r.exc)

\* Neo4jLoader.clear_database
clear_database(g) == DetachDeleteAll(g)

IndexNames == {"product_id", "event_id", "trade_show_id", "rd_project_id", "sale_customer"}

\* Neo4jLoader.create_indexes: CREATE INDEX ... IF NOT EXISTS, five times.
create_indexes(g) == [g EXCEPT !.indexes = @ \cup IndexNames]

\* Neo4jLoader.load_products
load_products(g, files, order, products_file) ==
    LET actual_file == _find_file(files, order, products_file, ProductsPattern)
    IN  IF actual_file = None THEN Returns(g, FALSE)
        ELSE IF files[actual_file] = Malformed THEN Returns(g, FALSE)
        ELSE Finish(ForEach(LoadProduct, g, Get(files[actual_file], "products", <<>>)))

\* Neo4jLoader.load_events
load_events(g, files, order, events_file) ==
    LET actual_file == _find_file(files, order, events_file, EventsPattern)
    IN  IF actual_file = None THEN Returns(g, FALSE)
        ELSE IF files[actual_file] = Malformed THEN Returns(g, FALSE)
        ELSE LET data == files[actual_file]
                 shows == ForEach(LoadTradeShow, g, Get(data, "trade_shows_exhibitions", <<>>))
             IN  IF shows.exc # "none" THEN Raises(shows.g, shows.exc)
                 ELSE Finish(ForEach(LoadPoweredEvent, shows.g, Get(data, "powered_events", <<>>)))

\* Neo4jLoader.load_rd_projects
load_rd_projects(g, files, order, rd_file) ==
    LET actual_file == _find_file(files, order, rd_file, RdPattern)
    IN  IF actual_file = None THEN Returns(g, FALSE)
        ELSE IF files[actual_file] = Malformed THEN Returns(g, FALSE)
        ELSE Finish(ForEach(LoadProject, g, Get(files[actual_file], "active_rd_projects", <<>>)))

RECURSIVE JoinLines(_)
\* "\n".join(segments)
JoinLines(segments) ==
    IF segments = <<>> THEN ""
    ELSE IF Len(segments) = 1 THEN segments[1]
    ELSE segments[1] \o "\n" \o JoinLines(Tail(segments))

\* Neo4jLoader.load_image.  service is what process_image_complete does for
\* the image: [fails |-> TRUE], or [fails |-> FALSE, docs |-> the segments].
\* Everything after the existence test is inside the try; analyzed_at, the
\* time of the load, is not kept.
load_image(g, files, service, image_path) ==
    IF files[image_path] = Absent THEN Returns(g, FALSE)
    ELSE IF service.fails THEN Returns(g, FALSE)
    ELSE IF service.docs = <<>> THEN Returns(g, FALSE)
    ELSE Returns(MergeNode(g, "Image", Basename(image_path),
                           [description |-> JoinLines(service.docs), path |-> image_path]),
                 TRUE)

\* ------------------------------------------------------------ the inputs
Product(id, bt, margin) ==
    [product_id |-> id, specifications |-> [battery_type |-> bt],
     pricing |-> [average_selling_price |-> 100, margin_percentage |-> margin]]

\* A product record whose pricing lacks margin_percentage.
ProductNoMargin(id, bt) ==
    [product_id |-> id, specifications |-> [battery_type |-> bt],
     pricing |-> [average_selling_price |-> 100]]

ProductRecs == {Product("P1", "LFP", 30), Product("P1", "NMC", 35), ProductNoMargin("P2", "LFP")}

ProductDocs == {[products |-> recs] : recs \in SeqsUpTo(ProductRecs, MaxRecs)}

\* "P1 x3", and the entries that are not "<id> x<integer>" or name no product.
GoodEntry == <<"P", "1", " ", "x", "3">>
Entries ==
    {GoodEntry,
     <<"P", "9", " ", "x", "2">>,
     <<"P", "1">>,
     <<"P", "1", " ", "x", "2", " ", "x", "3">>,
     <<"P", "1", " ", "x", "a">>}

EntryLists == {<<>>, <<GoodEntry>>} \cup {<<e, GoodEntry>> : e \in Entries \ {GoodEntry}}

Revenue == PyStr(<<"€", "1", ",", "2">>)

Sale(products) == [units |-> 2, total_revenue |-> Revenue, products |-> products]

\* The last lacks total_revenue.
SaleRecs == {[units |-> 0]} \cup {Sale(l) : l \in EntryLists} \cup {[units |-> 1]}

SalesClosed ==
    {<<>>} \cup {[particuliers |-> sale] : sale \in SaleRecs}
           \cup {[particuliers |-> Sale(<<GoodEntry>>), entreprises |-> Sale(<<>>)]}

EventIds == {"E1", "E1_entreprises"}

TradeShow(id, displayed, closed) ==
    [event_id |-> id,
     sales_data |-> [total_sales |-> Revenue, sales_closed |-> closed],
     greenpower_participation |-> [models_displayed |-> displayed]]

TradeShowRecs ==
    {TradeShow(id, <<"P9", "P1">>, sc) : id \in EventIds, sc \in SalesClosed}

PoweredEvent(id, models) == [event_id |-> id, power_deployment |-> [models_used |-> models]]

\* The last lacks models_used.
PoweredEventRecs ==
    {PoweredEvent("E1", l) : l \in EntryLists}
        \cup {[event_id |-> "E1", power_deployment |-> [attendees |-> "200"]]}

EventDocs ==
    {[trade_shows_exhibitions |-> <<t>>] : t \in TradeShowRecs}
        \cup {[powered_events |-> <<e>>] : e \in PoweredEventRecs}
        \cup {[trade_shows_exhibitions |-> <<TradeShow("E1", <<"P1">>, [particuliers |-> sale])>>,
               powered_events |-> <<PoweredEvent("E1", <<GoodEntry>>)>>] :
                  sale \in {Sale(<<GoodEntry>>), [units |-> 1]}}

RdDocs ==
    {[active_rd_projects |-> <<>>],
     [active_rd_projects |-> <<[project_id |-> "R1", target_products |-> <<"P9", "P1">>]>>],
     [active_rd_projects |-> <<[project_id |-> "R1", projected_annual_savings |-> "5"],
                               [status |-> "draft"]>>]}

Services == {[fails |-> TRUE], [fails |-> FALSE, docs |-> <<>>], [fails |-> FALSE, docs |-> <<"a", "b">>]}

ImageFile == [image |-> TRUE]

\* The permutations of a set, as sequences.
Perms(S) == {q \in [1..Cardinality(S) -> S] : \A i, j \in DOMAIN q : q[i] = q[j] => i = j}

PathList ==
    <<ProductsDefault, "data/new_products.json", "data/old_products.json", EventsDefault,
      "data/old_events.json", RdDefault, ImageDefault>>

Existing(files) == {p \in Paths : files[p] # Absent}

\* ------------------------------------------------------------- the state
VARIABLES
    files,        \* the data directory: path -> Absent, Malformed or the parsed document
    order,        \* the order in which the file system enumerates the existing paths
    service,      \* what process_image_complete does for the image
    graph,        \* the Neo4j database
    pc,           \* where the process is
    exc,          \* the exception propagating in the process, or "none"
    files_loaded, \* the counter of load_all
    trace,        \* the stages the current load_all has started
    closed,       \* whether the driver is closed
    run,          \* how many times the process was started
    prev,         \* Counts of the graph when the previous process ended
    last          \* the last method call made on the loader, with its outcome

vars == <<files, order, service, graph, pc, exc, files_loaded, trace, closed, run, prev, last>>

NoCall == [op |-> "none"]

\* ------------------------------------------------- the process entry point
\* The statements of load_all, in order.
Stages ==
    <<"clear_database", "create_indexes", "load_products", "load_events", "load_rd_projects",
      "load_image">>

StageIndex(stage) == CHOOSE i \in DOMAIN Stages : Stages[i] = stage

\* A mutation of NextStage: load_all clears the database after the products.
NextStageClearLate(stage) ==
    CASE stage = "load_all" -> "create_indexes"
      [] stage = "create_indexes" -> "load_products"
      [] stage = "load_products" -> "clear_database"
      [] stage = "clear_database" -> "load_events"
      [] stage = "load_events" -> "load_rd_projects"
      [] stage = "load_rd_projects" -> "load_image"
      [] stage = "load_image" -> "report"

\* The statement of load_all that follows a statement that returned.
NextStage(stage) ==
    IF stage = "load_all" THEN Stages[1]
    ELSE IF StageIndex(stage) < Len(Stages) THEN Stages[StageIndex(stage) + 1]
    ELSE "report"

\* A mutation of OnRaise: no finally clause, the exception ends the process.
OnRaiseNoFinally == "exit"

\* Where an exception that leaves load_all or verify_data takes the process:
\* load_all catches nothing, and the try of the entry point has a finally.
OnRaise == "finally"

\* The data files and the database the process may find.
StaleGraph ==
    MergeRel(MergeNode(MergeNode(EmptyGraph, "Product", "P0", NoProps), "BatteryType", "Pb", NoProps),
             "USES_BATTERY", Pat("Product", "P0"), Pat("BatteryType", "Pb"), NoProps)

NoFiles == [p \in Paths |-> Absent]

\* The products files: the default file, or fallback files only.
ProductLayouts ==
    {[f \in {ProductsDefault} |-> c] : c \in ProductDocs \cup {Malformed}}
        \cup {Restrict([f \in ProductPaths |->
                          IF f = "data/old_products.json" THEN [products |-> <<Product("P1", "LFP", 30)>>]
                          ELSE [products |-> <<Product("P1", "NMC", 35), ProductNoMargin("P2", "LFP")>>]],
                       S) : S \in SUBSET (ProductPaths \ {ProductsDefault})}

MainEventDocs ==
    {[trade_shows_exhibitions |-> <<TradeShow("E1", <<"P9", "P1">>, [particuliers |-> Sale(l)])>>,
      powered_events |-> <<PoweredEvent("E1", <<GoodEntry>>)>>] :
         l \in {<<GoodEntry>>, <<<<"P", "1", " ", "x", "a">>, GoodEntry>>}}

Overlay(layout) == [p \in Paths |-> IF p \in DOMAIN layout THEN layout[p] ELSE Absent]

MainInit ==
    /\ \E pl \in ProductLayouts, ev \in MainEventDocs \cup {Absent, Malformed},
          rd \in RdDocs \cup {Absent}, img \in {Absent, ImageFile} :
          files = Overlay(pl @@ (EventsDefault :> ev) @@ (RdDefault :> rd) @@ (ImageDefault :> img))
    /\ order \in {q \o SelectSeq(PathList, LAMBDA p : files[p] # Absent /\ p \notin Range(q)) :
                     q \in Perms(Existing(files) \cap (ProductPaths \ {ProductsDefault}))}
    /\ service \in Services
    /\ graph \in {EmptyGraph, StaleGraph}
    /\ pc = "load_all"
    /\ exc = "none"
    /\ files_loaded = 0
    /\ trace = <<>>
    /\ closed = FALSE
    /\ run = 1
    /\ prev = Counts(graph)
    /\ last = NoCall

\* loader.load_all() is entered.
EnterLoadAll ==
    /\ pc = "load_all"
    /\ pc' = NextStage("load_all")
    /\ trace' = <<>>
    /\ files_loaded' = 0
    /\ UNCHANGED <<files, order, service, graph, exc, closed, run, prev, last>>

\* A statement of load_all that calls a load_* method: the outcome r of the
\* call either raises out of load_all or is counted.
StageDone(stage, r) ==
    /\ graph' = r.g
    /\ trace' = Append(trace, stage)
    /\ IF r.exc # "none"
       THEN exc' = r.exc /\ pc' = OnRaise /\ UNCHANGED files_loaded
       ELSE /\ exc' = exc
            /\ pc' = NextStage(stage)
            /\ files_loaded' = IF r.ret THEN files_loaded + 1 ELSE files_loaded
    /\ UNCHANGED <<files, order, service, closed, run, prev, last>>

ClearStage ==
    /\ pc = "clear_database"
    /\ graph' = clear_database(graph)
    /\ trace' = Append(trace, "clear_database")
    /\ pc' = NextStage("clear_database")
    /\ UNCHANGED <<files, order, service, exc, files_loaded, closed, run, prev, last>>

IndexStage ==
    /\ pc = "create_indexes"
    /\ graph' = create_indexes(graph)
    /\ trace' = Append(trace, "create_indexes")
    /\ pc' = NextStage("create_indexes")
    /\ UNCHANGED <<files, order, service, exc, files_loaded, closed, run, prev, last>>

ProductsStage ==
    /\ pc = "load_products"
    /\ StageDone("load_products", load_products(graph, files, order, ProductsDefault))

EventsStage ==
    /\ pc = "load_events"
    /\ StageDone("load_events", load_events(graph, files, order, EventsDefault))

RdStage ==
    /\ pc = "load_rd_projects"
    /\ StageDone("load_rd_projects", load_rd_projects(graph, files, order, RdDefault))

ImageStage ==
    /\ pc = "load_image"
    /\ StageDone("load_image", load_image(graph, files, service, ImageDefault))

\* The closing report of load_all; load_all returns.
Report ==
    /\ pc = "report"
    /\ pc' = "verify_data"
    /\ UNCHANGED <<files, order, service, graph, exc, files_loaded, trace, closed, run, prev, last>>

\* loader.verify_data(): two read queries, which the database may fail.
VerifyData ==
    /\ pc = "verify_data"
    /\ \E fails \in BOOLEAN :
          IF fails THEN exc' = "ServiceUnavailable" /\ pc' = OnRaise
          ELSE exc' = exc /\ pc' = "finally"
    /\ last' = [op |-> "verify_data", counts |-> Counts(graph)]
    /\ UNCHANGED <<files, order, service, graph, files_loaded, trace, closed, run, prev>>

\* finally: loader.close()
Finally ==
    /\ pc = "finally"
    /\ closed' = TRUE
    /\ pc' = "exit"
    /\ UNCHANGED <<files, order, service, graph, exc, files_loaded, trace, run, prev, last>>

\* The process is started again on the same files and database.
Rerun ==
    /\ pc = "exit"
    /\ run < MaxRuns
    /\ run' = run + 1
    /\ prev' = Counts(graph)
    /\ pc' = "load_all"
    /\ exc' = "none"
    /\ closed' = FALSE
    /\ files_loaded' = 0
    /\ trace' = <<>>
    /\ last' = NoCall
    /\ UNCHANGED <<files, order, service, graph>>

MainNext ==
    \/ EnterLoadAll
    \/ ClearStage
    \/ IndexStage
    \/ ProductsStage
    \/ EventsStage
    \/ RdStage
    \/ ImageStage
    \/ Report
    \/ VerifyData
    \/ Finally
    \/ Rerun

MainSpec == MainInit /\ [][MainNext]_vars

\* ------------------------------------------------ the loader's methods
\* A caller holds the loader and calls its methods in any order on the
\* default paths, going on after a call that raised.
ApiInit ==
    /\ \E pr \in ProductDocs \cup {Absent}, ev \in EventDocs \cup {Absent}, rd \in RdDocs :
          files = Overlay((ProductsDefault :> pr) @@ (EventsDefault :> ev) @@ (RdDefault :> rd)
                          @@ (ImageDefault :> ImageFile))
    /\ order = SelectSeq(PathList, LAMBDA p : files[p] # Absent)
    /\ service = [fails |-> FALSE, docs |-> <<"a", "b">>]
    /\ graph = EmptyGraph
    /\ pc = "api"
    /\ exc = "none"
    /\ files_loaded = 0
    /\ trace = <<>>
    /\ closed = FALSE
    /\ run = 1
    /\ prev = Counts(graph)
    /\ last = NoCall

Called(op, r) ==
    /\ pc = "api"
    /\ graph' = r.g
    /\ last' = [op |-> op, ret |-> r.ret, exc |-> r.exc]
    /\ UNCHANGED <<files, order, service, pc, exc, files_loaded, trace, closed, run, prev>>

CallClearDatabase == Called("clear_database", Returns(clear_database(graph), FALSE))

CallCreateIndexes == Called("create_indexes", Returns(create_indexes(graph), FALSE))

CallLoadProducts == Called("load_products", load_products(graph, files, order, ProductsDefault))

CallLoadEvents == Called("load_events", load_events(graph, files, order, EventsDefault))

CallLoadRdProjects == Called("load_rd_projects", load_rd_projects(graph, files, order, RdDefault))

CallLoadImage == Called("load_image", load_image(graph, files, service, ImageDefault))

Next ==
    \/ CallClearDatabase
    \/ CallCreateIndexes
    \/ CallLoadProducts
    \/ CallLoadEvents
    \/ CallLoadRdProjects
    \/ CallLoadImage

Spec == ApiInit /\ [][Next]_vars

\* ------------------------------------------------------ file resolution
EmptyDoc == [products |-> <<>>]

\* Any of the products and events files exist, enumerated in any order.
ResolveInit ==
    /\ \E S \in SUBSET (ProductPaths \cup EventPaths) :
          files = [p \in Paths |-> IF p \in S THEN EmptyDoc ELSE Absent]
    /\ order \in Perms(Existing(files))
    /\ service = [fails |-> TRUE]
    /\ graph = EmptyGraph
    /\ pc = "resolve"
    /\ exc = "none"
    /\ files_loaded = 0
    /\ trace = <<>>
    /\ closed = FALSE
    /\ run = 1
    /\ prev = Counts(graph)
    /\ last = NoCall

CallFindFile ==
    /\ pc = "resolve"
    /\ \E default_path \in ProductPaths \cup EventPaths, pattern \in Patterns :
          last' = [op |-> "_find_file", default_path |-> default_path, pattern |-> pattern,
                   ret |-> _find_file(files, order, default_path, pattern)]
    /\ UNCHANGED <<files, order, service, graph, pc, exc, files_loaded, trace, closed, run, prev>>

ResolveNext == CallFindFile

ResolveSpec == ResolveInit /\ [][ResolveNext]_vars

\* -------------------------------------------------------- revenue parsing
Chars == {"€", ",", " ", "\t", "1", "2", ".", "-", "x"}

RevenueInputs ==
    {PyStr(cs) : cs \in SeqsUpTo(Chars, MaxLen)}
        \cup {PyInt(m, e) : m \in {0 - 1, 0, 42}, e \in {0, 1024}}
        \cup {PyFloat(v) : v \in {0, Unit + Unit \div 2, 0 - Unit}}

ParseInit ==
    /\ files = NoFiles
    /\ order = <<>>
    /\ service = [fails |-> TRUE]
    /\ graph = EmptyGraph
    /\ pc = "parse"
    /\ exc = "none"
    /\ files_loaded = 0
    /\ trace = <<>>
    /\ closed = FALSE
    /\ run = 1
    /\ prev = Counts(graph)
    /\ \E x \in RevenueInputs : last = [op |-> "input", arg |-> x]

\* parse_revenue(x)
CallParseRevenue ==
    /\ pc = "parse"
    /\ last.op = "input"
    /\ last' = [op |-> "parse_revenue", arg |-> last.arg, out |-> parse_revenue(last.arg)]
    /\ UNCHANGED <<files, order, service, graph, pc, exc, files_loaded, trace, closed, run, prev>>

\* parse_revenue(parse_revenue(x))
CallParseRevenueAgain ==
    /\ pc = "parse"
    /\ last.op = "parse_revenue"
    /\ last.out.exc = "none"
    /\ last' = [op |-> "parse_revenue_twice", arg |-> last.arg, out |-> last.out,
                again |-> parse_revenue(PyFloat(last.out.v))]
    /\ UNCHANGED <<files, order, service, graph, pc, exc, files_loaded, trace, closed, run, prev>>

ParseNext ==
    \/ CallParseRevenue
    \/ CallParseRevenueAgain

ParseSpec == ParseInit /\ [][ParseNext]_vars

\* ------------------------------------------------------------ the claims
LoaderErrors == {"KeyError", "ValueError", "OverflowError"}

LoadStages == {"load_products", "load_events", "load_rd_projects", "load_image"}

LoadAllEnded == pc \in {"verify_data", "finally", "exit"}

\* C1: whatever the outcome of each category stage, load_all attempts
\* load_products, load_events, load_rd_projects and load_image and returns
\* without raising.
C1_EveryStageAttempted ==
    LoadAllEnded => LoadStages \subseteq Range(trace) /\ exc \notin LoaderErrors

\* C2: a second full load against the same files ends with the node count of
\* every label and the relationship count of every type that the first ended with.
C2_RerunSameCounts == (pc = "exit" /\ run > 1) => Counts(graph) = prev

C2_Witness ==
    /\ pc = "exit"
    /\ run > 1
    /\ exc = "none"
    /\ Counts(graph).nodes["Sale"] > 0
    /\ Counts(graph).rels["INCLUDES_PRODUCT"] > 0
    /\ Counts(graph).nodes["Image"] > 0

TheProducts == Get(files[ProductsDefault], "products", <<>>)

\* The properties load_products sets from a record.
PropsOf(rec) ==
    [battery_type |-> rec.specifications.battery_type,
     margin_percentage |-> rec.pricing.margin_percentage]

\* C3: whatever the calls made, no <<label, key>> has more than one node, and
\* after a products load every loaded key has the properties of the last
\* record of the file that carries it.
C3_OneNodePerKey ==
    /\ \A k \in DOMAIN graph.nodes : Len(graph.nodes[k]) = 1
    /\ (last.op = "load_products" /\ last.exc = "none" /\ last.ret) =>
          \A i \in DOMAIN TheProducts :
             LET id == TheProducts[i].product_id
                 j == CHOOSE n \in DOMAIN TheProducts :
                         /\ TheProducts[n].product_id = id
                         /\ \A m \in DOMAIN TheProducts : TheProducts[m].product_id = id => m <= n
             IN  graph.nodes[<<"Product", id>>] = <<PropsOf(TheProducts[j])>>

C3_Witness ==
    /\ last.op = "load_products"
    /\ last.exc = "none"
    /\ TheProducts = <<Product("P1", "LFP", 30), Product("P1", "NMC", 35)>>
    /\ graph.nodes[<<"Product", "P1">>] = <<[battery_type |-> "NMC", margin_percentage |-> 35]>>
    /\ <<"TradeShow", "E1">> \in DOMAIN graph.nodes
    /\ <<"Image", "exemple.jpg">> \in DOMAIN graph.nodes

TheShows == Get(files[EventsDefault], "trade_shows_exhibitions", <<>>)
ThePowered == Get(files[EventsDefault], "powered_events", <<>>)
TheProjects == Get(files[RdDefault], "active_rd_projects", <<>>)

\* The sales of a trade show that have units.
Sold(show) ==
    {ct \in Range(CustomerTypes) :
        Get(Get(show.sales_data.sales_closed, ct, <<>>), "units", 0) > 0}

\* Every key the events mappers subscript is there.
KeysPresent ==
    /\ \A i \in DOMAIN TheShows :
          \A ct \in Sold(TheShows[i]) :
             "total_revenue" \in DOMAIN TheShows[i].sales_data.sales_closed[ct]
    /\ \A i \in DOMAIN ThePowered : "models_used" \in DOMAIN ThePowered[i].power_deployment

\* A shorthand entry with one " x" has an integer after it.
IntegerQuantity(entry) ==
    Len(Split(entry, <<" ", "x">>)) = 2 => IntOfStr(Split(entry, <<" ", "x">>)[2]).ok

IntegerQuantities ==
    /\ \A i \in DOMAIN TheShows :
          \A ct \in Sold(TheShows[i]) :
             \A e \in Range(Get(TheShows[i].sales_data.sales_closed[ct], "products", <<>>)) :
                IntegerQuantity(e)
    /\ \A i \in DOMAIN ThePowered :
          \A e \in Range(Get(ThePowered[i].power_deployment, "models_used", <<>>)) :
             IntegerQuantity(e)

EventsLoaded == last.op = "load_events" /\ files[EventsDefault] # Absent

\* C4: every relationship has both its end nodes; an events or R&D file whose
\* only defects are product ids that name no Product loads without error,
\* with the node of every record created.
C4_RelsHaveEndpoints ==
    /\ \A r \in DOMAIN graph.rels : r[2] \in DOMAIN graph.nodes /\ r[3] \in DOMAIN graph.nodes
    /\ (EventsLoaded /\ KeysPresent /\ IntegerQuantities) =>
          /\ last.exc = "none" /\ last.ret
          /\ \A i \in DOMAIN TheShows :
                /\ <<"TradeShow", TheShows[i].event_id>> \in DOMAIN graph.nodes
                /\ \A ct \in Sold(TheShows[i]) :
                      <<"Sale", SaleId(TheShows[i].event_id, ct)>> \in DOMAIN graph.nodes
          /\ \A i \in DOMAIN ThePowered :
                <<"Event", ThePowered[i].event_id>> \in DOMAIN graph.nodes
    /\ (last.op = "load_rd_projects" /\ \A i \in DOMAIN TheProjects : "project_id" \in DOMAIN TheProjects[i]) =>
          /\ last.exc = "none" /\ last.ret
          /\ \A i \in DOMAIN TheProjects :
                <<"RDProject", TheProjects[i].project_id>> \in DOMAIN graph.nodes

C4_Witness ==
    /\ EventsLoaded
    /\ last.exc = "none"
    /\ Len(TheShows) = 1
    /\ TheShows[1].greenpower_participation.models_displayed = <<"P9", "P1">>
    /\ <<"TradeShow", TheShows[1].event_id>> \in DOMAIN graph.nodes
    /\ <<"Product", "P9">> \notin DOMAIN graph.nodes
    /\ <<"DISPLAYED_AT", <<"Product", "P1">>, <<"TradeShow", TheShows[1].event_id>>>> \in DOMAIN graph.rels
    /\ \A r \in DOMAIN graph.rels : r[2] # <<"Product", "P9">> /\ r[3] # <<"Product", "P9">>

\* C5: the process ends with the driver closed, whether load_all and
\* verify_data returned or raised, and verify_data runs only after load_all
\* has returned.
C5_ClosedAtExit ==
    /\ pc = "exit" => closed
    /\ pc = "verify_data" => exc = "none" /\ LoadStages \subseteq Range(trace)

C5_Witness == pc = "exit" /\ closed /\ exc \in LoaderErrors

\* The order the specification gives the stages of load_all.
SpecOrder ==
    <<"clear_database", "create_indexes", "load_products", "load_events", "load_rd_projects",
      "load_image">>

\* C6: the stages started by one load_all are an initial part of: clear,
\* indexes, products, events, R&D, image, each once, and the stage about to
\* start is the next of that order.
C6_StagesInOrder ==
    /\ Len(trace) <= Len(SpecOrder)
    /\ \A i \in DOMAIN trace : trace[i] = SpecOrder[i]
    /\ pc \in Range(SpecOrder) => Len(trace) < Len(SpecOrder) /\ pc = SpecOrder[Len(trace) + 1]

C6_Witness == pc = "report" /\ trace = SpecOrder /\ files_loaded = 4

\* C7: what _find_file returns does not depend on the order in which the
\* file system enumerates the files.
C7_OrderIndependent ==
    last.op = "_find_file" =>
       \A q \in Perms(Existing(files)) :
          _find_file(files, q, last.default_path, last.pattern) = last.ret

\* C8: parse_revenue raises on no number and no string, is idempotent on a
\* number, and gives 0.0 for a string that is no number once stripped.
C8_NeverRaises ==
    /\ last.op \in {"parse_revenue", "parse_revenue_twice"} =>
          /\ last.out.exc = "none"
          /\ (last.arg.t = "str"
              /\ ~FloatOfStr(Strip(Remove(Remove(Remove(last.arg.s, "€"), ","), " "))).ok)
                => last.out.v = 0
    /\ last.op = "parse_revenue_twice" => last.again = last.out

\* C9: a sale's product entry that is not "<identifier> x<integer>" is
\* skipped: an events file with every key present loads without error.
C9_BadEntrySkipped == (EventsLoaded /\ KeysPresent) => last.exc = "none" /\ last.ret

\* C10: two (event_id, customer_type) pairs have the same sale_id only when
\* they are the same pair, and an events load leaves, for every sale with
\* units, one Sale node under its sale_id that carries its customer type and
\* is sold at its trade show.
C10_SaleIdInjective ==
    /\ \A e1, e2 \in EventIds : \A c1, c2 \in Range(CustomerTypes) :
          SaleId(e1, c1) = SaleId(e2, c2) <=> (e1 = e2 /\ c1 = c2)
    /\ (EventsLoaded /\ last.exc = "none") =>
          \A i \in DOMAIN TheShows : \A ct \in Sold(TheShows[i]) :
             LET k == <<"Sale", SaleId(TheShows[i].event_id, ct)>>
             IN  /\ k \in DOMAIN graph.nodes
                 /\ Len(graph.nodes[k]) = 1
                 /\ graph.nodes[k][1].customer_type = ct
                 /\ <<"SOLD_AT", k, <<"TradeShow", TheShows[i].event_id>>>> \in DOMAIN graph.rels

C10_Witness ==
    /\ EventsLoaded
    /\ last.exc = "none"
    /\ <<"Sale", "E1_particuliers">> \in DOMAIN graph.nodes
    /\ <<"Sale", "E1_entreprises">> \in DOMAIN graph.nodes
    /\ graph.nodes[<<"Sale", "E1_entreprises">>][1].customer_type = "entreprises"

====
